---- MODULE Spec2Model ----
(***************************************************************************)
(* ReplayChatCompletionClient                                              *)
(* (autogen_ext/models/replay/_replay_chat_completion_client.py).          *)
(*                                                                         *)
(* One client instance: the list of canned responses, the cursor into it,  *)
(* the two usage counters, the cached flag, the log of create() calls and  *)
(* the frames of the create_stream generators that are suspended between   *)
(* two pulls.  A Python str is a sequence of one-character strings, so     *)
(* that str.split() and the re-joining of streamed fragments are computed  *)
(* character by character.                                                 *)
(***************************************************************************)
EXTENDS Integers, Sequences, FiniteSets, Bags, TLC

\* ------------------------------------------------------------------ bounds
\* Longest raw text drawn for a canned response.
MaxLen == 3
\* Most canned responses a client is built with.
MaxN == 2
\* Most create_stream generators suspended at the same time.
MaxStreams == 1
\* Longest call log: create() is not called again once the log is this long.
MaxCalls == 2

\* ------------------------------------------------------------------ strings
\* Characters str.split() (no argument) treats as separators.
Whitespace == {" ", "\t", "\n"}

\* The alphabet the raw texts are drawn from.
Chars == {"a", " "}

\* Every str of at most n characters.
StringsUpTo(n) == UNION {[1..k -> Chars] : k \in 0..n}

\* str.split(): the maximal runs of non-whitespace characters, in order;
\* cur is the run being read, acc the runs already closed.
RECURSIVE SplitAcc(_, _, _)
SplitAcc(s, cur, acc) ==
  IF s = <<>>
    THEN (IF cur = <<>> THEN acc ELSE Append(acc, cur))
    ELSE IF Head(s) \in Whitespace
      THEN SplitAcc(Tail(s), <<>>, IF cur = <<>> THEN acc ELSE Append(acc, cur))
      ELSE SplitAcc(Tail(s), Append(cur, Head(s)), acc)

Split(s) == SplitAcc(s, <<>>, <<>>)

\* ''.join(parts)
RECURSIVE Concat(_)
Concat(parts) == IF parts = <<>> THEN <<>> ELSE Head(parts) \o Concat(Tail(parts))

\* ------------------------------------------------------------------ values
\* RequestUsage(prompt_tokens=p, completion_tokens=c)
RequestUsage(p, c) == [prompt_tokens |-> p, completion_tokens |-> c]

\* CreateResult(finish_reason=f, content=t, usage=u, cached=b)
CreateResult(f, t, u, b) == [finish_reason |-> f, content |-> t, usage |-> u, cached |-> b]

\* Optional[...]: None, or a value.
None == [some |-> FALSE]
Some(v) == [some |-> TRUE, val |-> v]

\* A message's content: a str, or something that is not a str (a list of
\* function calls, an image list).
StrContent(s) == [isstr |-> TRUE, str |-> s]
NonStrContent == [isstr |-> FALSE, str |-> <<>>]

\* An LLMMessage: an object with a content attribute.
Message(c) == [content |-> c]

\* The three shapes _tokenize accepts.
AsStr(s) == [shape |-> "str", val |-> s]
AsMessage(m) == [shape |-> "message", val |-> m]
AsSequence(ms) == [shape |-> "sequence", val |-> ms]

\* One entry of chat_completions: Union[str, CreateResult].
StrEntry(s) == [kind |-> "str", str |-> s]
ResultEntry(r) == [kind |-> "result", result |-> r]

\* What a caller receives: a str fragment or a CreateResult.
StrItem(s) == [kind |-> "str", str |-> s]
ResultItem(r) == [kind |-> "result", result |-> r]

\* ------------------------------------------------------------------ inputs
\* "a a a", " a", "a a": the strs used in prompts and pre-built results;
\* "a\ta": a text whose two pieces are separated by a tab.
ThreeWords == <<"a", " ", "a", " ", "a">>
OneWord == <<" ", "a">>
TwoWords == <<"a", " ", "a">>
Tabbed == <<"a", "\t", "a">>

\* The argument lists create and create_stream are called with: a
\* three-token prompt with the default tool_choice, and a prompt of one
\* one-token message and one message whose content is not a str, with a
\* tool_choice that is not the default.
Requests ==
  { [messages |-> <<Message(StrContent(ThreeWords))>>, tools |-> <<>>,
     tool_choice |-> "auto", json_output |-> None,
     extra_create_args |-> <<>>, cancellation_token |-> None],
    [messages |-> <<Message(StrContent(OneWord)), Message(NonStrContent)>>, tools |-> <<>>,
     tool_choice |-> "required", json_output |-> Some(TRUE),
     extra_create_args |-> <<>>, cancellation_token |-> None] }

\* The pre-built results a client is given: their stored prompt_tokens (5)
\* is the count of no prompt in Requests, their stored completion_tokens
\* is small (7) or more than half the capacity (6000).
PrebuiltResults ==
  { CreateResult("length", TwoWords, RequestUsage(5, c), FALSE) : c \in {7, 6000} }

\* The entries a client is given: every raw text of at most MaxLen
\* characters, the tabbed text, and the pre-built results.
Entries ==
  {StrEntry(s) : s \in StringsUpTo(MaxLen) \cup {Tabbed}}
    \cup {ResultEntry(r) : r \in PrebuiltResults}

\* The entries of the longer lists and of the lists given with a model
\* info: a two-piece text and a pre-built result that uses more than half
\* the capacity.
Representative ==
  {StrEntry(TwoWords), ResultEntry(CreateResult("length", TwoWords, RequestUsage(5, 6000), FALSE))}

\* The longer lists: the two representative entries in turn, the text
\* first, so that which entry a request was served is visible in what it
\* returns.
Alternating(n) ==
  [i \in 1..n |-> IF i % 2 = 1 THEN StrEntry(TwoWords)
                  ELSE ResultEntry(CreateResult("length", TwoWords, RequestUsage(5, 6000), FALSE))]

\* The response lists a client is built with, N = 0..MaxN entries: every
\* list of at most one entry, and the longer alternating lists.
ResponseLists ==
  UNION {[1..n -> Entries] : n \in 0..1} \cup {Alternating(n) : n \in 2..MaxN}

\* ModelInfo when none is given (lines 141-147), and one that is given.
DefaultModelInfo ==
  [vision |-> FALSE, function_calling |-> FALSE, json_output |-> FALSE,
   family |-> "unknown", structured_output |-> FALSE]
GivenModelInfo ==
  [vision |-> TRUE, function_calling |-> TRUE, json_output |-> TRUE,
   family |-> "gpt-4o", structured_output |-> TRUE]

\* ------------------------------------------------------------------ _tokenize
\* The string-or-warn rule for one message: the pieces of a str content,
\* nothing (and a warning) for any other content.
ContentTokens(m) == IF m.content.isstr THEN Split(m.content.str) ELSE <<>>

\* The loop of the Sequence branch: all_tokens after the last message.
RECURSIVE SequenceTokens(_)
SequenceTokens(ms) ==
  IF ms = <<>> THEN <<>> ELSE ContentTokens(Head(ms)) \o SequenceTokens(Tail(ms))

\* _tokenize(messages) -> (all_tokens, total_tokens)
Tokenize(x) ==
  LET all_tokens ==
        IF x.shape = "str" THEN Split(x.val)
        ELSE IF x.shape = "message" THEN ContentTokens(x.val)
        ELSE SequenceTokens(x.val)
  IN [tokens |-> all_tokens, count |-> Len(all_tokens)]

\* ------------------------------------------------------------------ state
VARIABLES
  chat_completions,        \* self.chat_completions
  model_info,              \* self._model_info
  total_available_tokens,  \* self._total_available_tokens
  cur_usage,               \* self._cur_usage
  total_usage,             \* self._total_usage
  current_index,           \* self._current_index
  cached_bool_value,       \* self._cached_bool_value
  create_calls,            \* self._create_calls
  streams,                 \* the suspended create_stream generators
  last,                    \* the last operation and what its caller received
  overlapped,              \* history: an operation ran while a stream was suspended
  served,                  \* history: results of the requests completed since reset
  captured                 \* history: sum of actual_usage() read after each of them

client == <<chat_completions, model_info, total_available_tokens, cur_usage,
            total_usage, current_index, cached_bool_value, create_calls>>
history == <<overlapped, served, captured>>
vars == <<client, streams, last, history>>

\* __init__(chat_completions, model_info): the attributes of a new client.
Construct(completions, info) ==
  [chat_completions |-> completions,
   model_info |-> IF info.some THEN info.val ELSE DefaultModelInfo,
   total_available_tokens |-> 10000,
   cur_usage |-> RequestUsage(0, 0),
   total_usage |-> RequestUsage(0, 0),
   current_index |-> 0,
   cached_bool_value |-> TRUE,
   create_calls |-> <<>>]

\* A suspended create_stream generator: its local variables response,
\* prompt_token_count, output_tokens and i, the items yielded so far, and
\* pc, the yield it is suspended at ("token": line 230 or 232, "result":
\* line 233, "prebuilt": line 241).  The generators are anonymous objects:
\* streams is the bag of the suspended ones.
Frame(pc, response, prompt_token_count, output_tokens, i, yielded) ==
  [pc |-> pc, response |-> response, prompt_token_count |-> prompt_token_count,
   output_tokens |-> output_tokens, i |-> i, yielded |-> yielded]

Live == BagToSet(streams)

\* Some generator is suspended between two pulls.
AnySuspended == streams # EmptyBag

\* Some generator other than the one being pulled is suspended.
OtherSuspended == BagCardinality(streams) > 1

\* The last operation, how it ended ("return", "yield", "stop", or
\* "ValueError" for the exhausted error), and what create returned or
\* set_cached_bool_value was passed.
Outcome(op, how, items) == [op |-> op, outcome |-> how, items |-> items]

Init ==
  /\ \E completions \in ResponseLists, info \in {None, Some(GivenModelInfo)} :
       LET new == Construct(completions, info) IN
         /\ info.some => Len(completions) <= 1 /\ \A i \in 1..Len(completions) : completions[i] \in Representative
         /\ chat_completions = new.chat_completions
         /\ model_info = new.model_info
         /\ total_available_tokens = new.total_available_tokens
         /\ cur_usage = new.cur_usage
         /\ total_usage = new.total_usage
         /\ current_index = new.current_index
         /\ cached_bool_value = new.cached_bool_value
         /\ create_calls = new.create_calls
  /\ streams = EmptyBag
  /\ last = Outcome("__init__", "return", <<>>)
  /\ overlapped = FALSE
  /\ served = <<>>
  /\ captured = RequestUsage(0, 0)

\* ------------------------------------------------------------------ helpers
Max(a, b) == IF a >= b THEN a ELSE b

\* A total that takes in the completion tokens only.
UpdateTotalUsageCompletionOnly(total, cur) ==
  RequestUsage(total.prompt_tokens, total.completion_tokens + cur.completion_tokens)

\* _update_total_usage(): the total after the current usage is added to it.
UpdateTotalUsage(total, cur) ==
  RequestUsage(total.prompt_tokens + cur.prompt_tokens,
               total.completion_tokens + cur.completion_tokens)

\* A usage whose completion tokens are the characters of the text.
UsageOfCharacters(response, prompt_token_count) ==
  IF response.kind = "str"
    THEN RequestUsage(prompt_token_count, Len(response.str))
    ELSE RequestUsage(prompt_token_count, response.result.usage.completion_tokens)

\* self._cur_usage as create and create_stream set it for the entry
\* `response` and a prompt of `prompt_token_count` tokens (lines 181-182,
\* 187-189, 225-226, 238-240).
UsageOf(response, prompt_token_count) ==
  IF response.kind = "str"
    THEN RequestUsage(prompt_token_count, Tokenize(AsStr(response.str)).count)
    ELSE RequestUsage(prompt_token_count, response.result.usage.completion_tokens)

\* A synthesized result that is marked cached whatever the flag.
SynthesizedAlwaysCached(text, usage, cached) == CreateResult("stop", text, usage, TRUE)

\* The CreateResult synthesized for a raw text (lines 183-185, 233-235).
Synthesized(text, usage, cached) == CreateResult("stop", text, usage, cached)

\* What create returns for the entry `response`: the synthesized result for
\* a raw text, the entry itself for a pre-built result (line 202).
Returned(response, usage, cached) ==
  IF response.kind = "str"
    THEN Synthesized(response.str, usage, cached)
    ELSE response.result

\* Fragments with no space after any of them, and with one after all of them.
FragmentBare(output_tokens, i) == output_tokens[i + 1]
FragmentAlwaysSpace(output_tokens, i) == output_tokens[i + 1] \o <<" ">>

\* The fragment yielded for output_tokens[i] (0-based i, lines 229-232).
Fragment(output_tokens, i) ==
  IF i < Len(output_tokens) - 1
    THEN output_tokens[i + 1] \o <<" ">>
    ELSE output_tokens[i + 1]

\* The element-wise sum of two usages read by a caller.
Sum(u, v) ==
  [prompt_tokens |-> u.prompt_tokens + v.prompt_tokens,
   completion_tokens |-> u.completion_tokens + v.completion_tokens]

\* The history after a step: ov tells whether the step, or one before it
\* since the last quiet reset, ran while a stream was suspended; the
\* results and usages of completed requests are kept only until then.
Record(ov, results, usage) ==
  /\ overlapped' = ov
  /\ served' = IF ov THEN <<>> ELSE results
  /\ captured' = IF ov THEN RequestUsage(0, 0) ELSE usage

\* ------------------------------------------------------------------ create
\* A create that advances the cursor before it raises.
CreateRaisesAdvancing ==
  /\ current_index' = current_index + 1
  /\ last' = Outcome("create", "ValueError", <<>>)
  /\ Record(overlapped \/ AnySuspended, served, captured)
  /\ UNCHANGED <<chat_completions, model_info, total_available_tokens, cur_usage,
                 total_usage, cached_bool_value, create_calls, streams>>

\* A create that clears the current usage before it raises.
CreateRaisesClearingUsage ==
  /\ cur_usage' = RequestUsage(0, 0)
  /\ last' = Outcome("create", "ValueError", <<>>)
  /\ Record(overlapped \/ AnySuspended, served, captured)
  /\ UNCHANGED <<chat_completions, model_info, total_available_tokens, total_usage,
                 current_index, cached_bool_value, create_calls, streams>>

\* create when the list is exhausted: raises ValueError("No more mock
\* responses available") (lines 175-176).
CreateRaises ==
  /\ last' = Outcome("create", "ValueError", <<>>)
  /\ Record(overlapped \/ AnySuspended, served, captured)
  /\ UNCHANGED <<client, streams>>

\* A create that leaves to the suspended generators the entries they are
\* about to pass, and serves the one after them (the last one at most).
CreateServesSkipping(req) ==
  LET ahead == current_index + 1 + BagCardinality(streams)
      response == chat_completions[IF ahead <= Len(chat_completions)
                                     THEN ahead ELSE Len(chat_completions)]
      prompt_token_count == Tokenize(AsSequence(req.messages)).count
      usage == UsageOf(response, prompt_token_count)
      result == Returned(response, usage, cached_bool_value)
  IN /\ Len(create_calls) < MaxCalls
     /\ cur_usage' = usage
     /\ total_usage' = UpdateTotalUsage(total_usage, usage)
     /\ current_index' = current_index + 1
     /\ create_calls' = Append(create_calls,
          [messages |-> req.messages, tools |-> req.tools,
           json_output |-> req.json_output,
           extra_create_args |-> req.extra_create_args,
           cancellation_token |-> req.cancellation_token])
     /\ last' = Outcome("create", "return", <<ResultItem(result)>>)
     /\ Record(overlapped \/ AnySuspended,
               Append(served, ResultItem(result)),
               Sum(captured, cur_usage'))
     /\ UNCHANGED <<chat_completions, model_info, total_available_tokens,
                    cached_bool_value, streams>>

\* A create that puts the newest call first in the log.
CreateServesNewestFirst(req) ==
  LET response == chat_completions[current_index + 1]
      prompt_token_count == Tokenize(AsSequence(req.messages)).count
      usage == UsageOf(response, prompt_token_count)
      result == Returned(response, usage, cached_bool_value)
  IN /\ Len(create_calls) < MaxCalls
     /\ cur_usage' = usage
     /\ total_usage' = UpdateTotalUsage(total_usage, usage)
     /\ current_index' = current_index + 1
     /\ create_calls' =
          <<[messages |-> req.messages, tools |-> req.tools,
             json_output |-> req.json_output,
             extra_create_args |-> req.extra_create_args,
             cancellation_token |-> req.cancellation_token]>> \o create_calls
     /\ last' = Outcome("create", "return", <<ResultItem(result)>>)
     /\ Record(overlapped \/ AnySuspended,
               Append(served, ResultItem(result)),
               Sum(captured, cur_usage'))
     /\ UNCHANGED <<chat_completions, model_info, total_available_tokens,
                    cached_bool_value, streams>>

\* create otherwise: serves the entry at the cursor (lines 178-202).
CreateServes(req) ==
  LET response == chat_completions[current_index + 1]
      prompt_token_count == Tokenize(AsSequence(req.messages)).count
      usage == UsageOf(response, prompt_token_count)
      result == Returned(response, usage, cached_bool_value)
  IN /\ Len(create_calls) < MaxCalls
     /\ cur_usage' = usage
     /\ total_usage' = UpdateTotalUsage(total_usage, usage)
     /\ current_index' = current_index + 1
     /\ create_calls' = Append(create_calls,
          [messages |-> req.messages, tools |-> req.tools,
           json_output |-> req.json_output,
           extra_create_args |-> req.extra_create_args,
           cancellation_token |-> req.cancellation_token])
     /\ last' = Outcome("create", "return", <<ResultItem(result)>>)
     /\ Record(overlapped \/ AnySuspended,
               Append(served, ResultItem(result)),
               Sum(captured, cur_usage'))
     /\ UNCHANGED <<chat_completions, model_info, total_available_tokens,
                    cached_bool_value, streams>>

\* create(messages, ...) (lines 160-202); it has no await, so it runs as
\* one step.
Create(req) ==
  IF current_index >= Len(chat_completions) THEN CreateRaises ELSE CreateServes(req)

\* ------------------------------------------------------------------ create_stream
\* The first pull of a new create_stream generator (calling create_stream
\* only builds the generator: the body starts to run at the first pull).
\* It raises when the list is exhausted (lines 219-220), else reads the
\* entry at the cursor, sets the current usage and runs to the first yield
\* (lines 222-233, 237-241).
StreamStart(req) ==
  /\ BagCardinality(streams) < MaxStreams
  /\ IF current_index >= Len(chat_completions)
       THEN /\ last' = Outcome("create_stream", "ValueError", <<>>)
            /\ Record(overlapped \/ AnySuspended, served, captured)
            /\ UNCHANGED <<client, streams>>
       ELSE LET response == chat_completions[current_index + 1]
                prompt_token_count == Tokenize(AsSequence(req.messages)).count
                usage == UsageOf(response, prompt_token_count)
                output_tokens ==
                  IF response.kind = "str" THEN Tokenize(AsStr(response.str)).tokens ELSE <<>>
                item ==
                  IF response.kind = "result" THEN ResultItem(response.result)
                  ELSE IF output_tokens = <<>>
                    THEN ResultItem(Synthesized(response.str, usage, cached_bool_value))
                    ELSE StrItem(Fragment(output_tokens, 0))
                pc ==
                  IF response.kind = "result" THEN "prebuilt"
                  ELSE IF output_tokens = <<>> THEN "result" ELSE "token"
            IN /\ cur_usage' = usage
               /\ streams' = streams (+) SetToBag({Frame(pc, response, prompt_token_count, output_tokens,
                                                              0, <<item>>)})
               /\ last' = Outcome("create_stream", "yield", <<>>)
               /\ Record(overlapped \/ AnySuspended, served, captured)
               /\ UNCHANGED <<chat_completions, model_info, total_available_tokens,
                              total_usage, current_index, cached_bool_value,
                              create_calls>>

\* A pull that advances the cursor at every yield.
StreamYieldAdvancing(f) ==
  /\ f \in Live
  /\ f.pc = "token"
  /\ LET i == f.i + 1
         more == i < Len(f.output_tokens)
         item ==
           IF more
             THEN StrItem(Fragment(f.output_tokens, i))
             ELSE ResultItem(Synthesized(f.response.str, cur_usage, cached_bool_value))
         g == Frame(IF more THEN "token" ELSE "result", f.response,
                    f.prompt_token_count, f.output_tokens,
                    IF more THEN i ELSE f.i, Append(f.yielded, item))
     IN streams' = (streams (-) SetToBag({f})) (+) SetToBag({g})
  /\ current_index' = current_index + 1
  /\ last' = Outcome("create_stream", "yield", <<>>)
  /\ Record(overlapped \/ OtherSuspended, served, captured)
  /\ UNCHANGED <<chat_completions, model_info, total_available_tokens, cur_usage,
                 total_usage, cached_bool_value, create_calls>>

\* A further pull of the generator f, suspended at a fragment: the next
\* fragment (lines 228-232) or, after the last one, the final result, built
\* from the client's current usage and cached flag (lines 233-235).
StreamYield(f) ==
  /\ f \in Live
  /\ f.pc = "token"
  /\ LET i == f.i + 1
         more == i < Len(f.output_tokens)
         item ==
           IF more
             THEN StrItem(Fragment(f.output_tokens, i))
             ELSE ResultItem(Synthesized(f.response.str, cur_usage, cached_bool_value))
         g == Frame(IF more THEN "token" ELSE "result", f.response,
                    f.prompt_token_count, f.output_tokens,
                    IF more THEN i ELSE f.i, Append(f.yielded, item))
     IN streams' = (streams (-) SetToBag({f})) (+) SetToBag({g})
  /\ last' = Outcome("create_stream", "yield", <<>>)
  /\ Record(overlapped \/ OtherSuspended, served, captured)
  /\ UNCHANGED client

\* A last pull that adds nothing to the total.
StreamFinishNoTotal(f) ==
  /\ f \in Live
  /\ f.pc \in {"result", "prebuilt"}
  /\ current_index' = current_index + 1
  /\ streams' = streams (-) SetToBag({f})
  /\ last' = Outcome("create_stream", "stop", <<>>)
  /\ Record(overlapped \/ OtherSuspended,
            Append(served, f.yielded[Len(f.yielded)]),
            Sum(captured, cur_usage))
  /\ UNCHANGED <<chat_completions, model_info, total_available_tokens, cur_usage,
                 total_usage, cached_bool_value, create_calls>>

\* A last pull that takes the served entry off the list.
StreamFinishConsuming(f) ==
  /\ f \in Live
  /\ f.pc \in {"result", "prebuilt"}
  /\ total_usage' = UpdateTotalUsage(total_usage, cur_usage)
  /\ chat_completions' = IF chat_completions = <<>> THEN <<>> ELSE Tail(chat_completions)
  /\ streams' = streams (-) SetToBag({f})
  /\ last' = Outcome("create_stream", "stop", <<>>)
  /\ Record(overlapped \/ OtherSuspended,
            Append(served, f.yielded[Len(f.yielded)]),
            Sum(captured, cur_usage))
  /\ UNCHANGED <<model_info, total_available_tokens, cur_usage, current_index,
                 cached_bool_value, create_calls>>

\* A last pull that records the stream in the call log.
StreamFinishLogging(f) ==
  /\ f \in Live
  /\ f.pc \in {"result", "prebuilt"}
  /\ total_usage' = UpdateTotalUsage(total_usage, cur_usage)
  /\ current_index' = current_index + 1
  /\ create_calls' =
       IF Len(create_calls) < MaxCalls
         THEN Append(create_calls, [messages |-> <<>>, tools |-> <<>>, json_output |-> None,
                                    extra_create_args |-> <<>>, cancellation_token |-> None])
         ELSE create_calls
  /\ streams' = streams (-) SetToBag({f})
  /\ last' = Outcome("create_stream", "stop", <<>>)
  /\ Record(overlapped \/ OtherSuspended,
            Append(served, f.yielded[Len(f.yielded)]),
            Sum(captured, cur_usage))
  /\ UNCHANGED <<chat_completions, model_info, total_available_tokens, cur_usage,
                 cached_bool_value>>

\* The pull of f after its result was yielded: the total is updated with
\* the client's current usage, the cursor advances and the generator ends
\* (lines 236, 242, 244).
StreamFinish(f) ==
  /\ f \in Live
  /\ f.pc \in {"result", "prebuilt"}
  /\ total_usage' = UpdateTotalUsage(total_usage, cur_usage)
  /\ current_index' = current_index + 1
  /\ streams' = streams (-) SetToBag({f})
  /\ last' = Outcome("create_stream", "stop", <<>>)
  /\ Record(overlapped \/ OtherSuspended,
            Append(served, f.yielded[Len(f.yielded)]),
            Sum(captured, cur_usage))
  /\ UNCHANGED <<chat_completions, model_info, total_available_tokens, cur_usage,
                 cached_bool_value, create_calls>>

\* The suspended generator f is closed (or dropped) by its caller and never
\* pulled again: the body has no finally clause, nothing else runs.
StreamClose(f) ==
  /\ f \in Live
  /\ streams' = streams (-) SetToBag({f})
  /\ last' = Outcome("aclose", "return", <<>>)
  /\ UNCHANGED <<client, history>>

\* ------------------------------------------------------------------ the rest
\* A reset that zeroes the usage but does not rewind the cursor.
ResetKeepsIndex ==
  /\ cur_usage' = RequestUsage(0, 0)
  /\ total_usage' = RequestUsage(0, 0)
  /\ last' = Outcome("reset", "return", <<>>)
  /\ Record(AnySuspended, <<>>, RequestUsage(0, 0))
  /\ UNCHANGED <<chat_completions, model_info, total_available_tokens, current_index,
                 cached_bool_value, create_calls, streams>>

\* A reset that also empties the call log.
ResetClearsCalls ==
  /\ cur_usage' = RequestUsage(0, 0)
  /\ total_usage' = RequestUsage(0, 0)
  /\ current_index' = 0
  /\ create_calls' = <<>>
  /\ last' = Outcome("reset", "return", <<>>)
  /\ Record(AnySuspended, <<>>, RequestUsage(0, 0))
  /\ UNCHANGED <<chat_completions, model_info, total_available_tokens,
                 cached_bool_value, streams>>

\* reset() (lines 305-309)
Reset ==
  /\ cur_usage' = RequestUsage(0, 0)
  /\ total_usage' = RequestUsage(0, 0)
  /\ current_index' = 0
  /\ last' = Outcome("reset", "return", <<>>)
  /\ Record(AnySuspended, <<>>, RequestUsage(0, 0))
  /\ UNCHANGED <<chat_completions, model_info, total_available_tokens,
                 cached_bool_value, create_calls, streams>>

\* set_cached_bool_value(value) (lines 264-265)
SetCachedBoolValue(value) ==
  /\ cached_bool_value' = value
  /\ last' = Outcome("set_cached_bool_value", "return", <<value>>)
  /\ UNCHANGED <<chat_completions, model_info, total_available_tokens, cur_usage,
                 total_usage, current_index, create_calls, streams, history>>

\* A count that stops after the first message.
CountTokensFirstMessage(messages) ==
  IF messages = <<>> THEN 0 ELSE Tokenize(AsMessage(messages[1])).count

\* count_tokens(messages) (lines 255-257)
CountTokens(messages) == Tokenize(AsSequence(messages)).count

\* A remaining count that is not clamped at 0.
RemainingTokensUnclamped(messages) ==
  total_available_tokens - total_usage.prompt_tokens - total_usage.completion_tokens

\* remaining_tokens(messages) (lines 259-262)
RemainingTokens(messages) ==
  Max(0, total_available_tokens - total_usage.prompt_tokens
           - total_usage.completion_tokens)

\* actual_usage() (lines 249-250) and total_usage() (lines 252-253)
ActualUsage == cur_usage
TotalUsage == total_usage

\* A configuration that leaves the model_info out.
ToConfigNoInfo == [chat_completions |-> chat_completions, model_info |-> None]

\* _to_config() (lines 311-315)
ToConfig ==
  [chat_completions |-> chat_completions, model_info |-> Some(model_info)]

\* _from_config(config) (lines 317-322): the attributes of the new client.
FromConfig(config) == Construct(config.chat_completions, config.model_info)

Next ==
  \/ \E req \in Requests : Create(req)
  \/ \E req \in Requests : StreamStart(req)
  \/ \E f \in Live : StreamYield(f)
  \/ \E f \in Live : StreamFinish(f)
  \/ \E f \in Live : StreamClose(f)
  \/ Reset
  \/ \E value \in BOOLEAN : SetCachedBoolValue(value)

Spec == Init /\ [][Next]_vars

\* ------------------------------------------------------------------ claims
N == Len(chat_completions)

\* The number of whitespace-separated pieces of a str: the positions where
\* a piece starts.
PieceCount(t) ==
  Cardinality({j \in 1..Len(t) : t[j] \notin Whitespace /\ (j = 1 \/ t[j - 1] \in Whitespace)})

\* The pieces of the str contents of a message sequence, counted one
\* message after the other.
RECURSIVE PromptPieces(_)
PromptPieces(ms) ==
  IF ms = <<>> THEN 0
  ELSE (IF Head(ms).content.isstr THEN PieceCount(Head(ms).content.str) ELSE 0)
         + PromptPieces(Tail(ms))

\* The content a request for the entry e must return.
ContentOf(e) == IF e.kind = "str" THEN e.str ELSE e.result.content

\* The result item r is the one to return for the entry e.
Serves(r, e) ==
  /\ r.kind = "result"
  /\ r.result.content = ContentOf(e)
  /\ e.kind = "result" => r.result.finish_reason = e.result.finish_reason
                          /\ r.result.cached = e.result.cached

\* C1: with requests made one after another, the k-th request completed
\* since construction or the last reset returned entry k-1, for every k up
\* to the cursor, which never passes N; a request fails with the exhausted
\* error only once N requests have been served, and nothing is served
\* beyond the N-th; reset starts the count again.
C1_ReplayInOrder ==
  ~overlapped =>
    /\ Len(served) = current_index
    /\ current_index <= N
    /\ \A k \in 1..Len(served) : Serves(served[k], chat_completions[k])
    /\ last.outcome = "ValueError" => Len(served) = N

\* C1: the only entry was served by create, reset, and served by create
\* again; the next request failed.
C1_Witness ==
  /\ ~overlapped
  /\ N = 1
  /\ Len(create_calls) = 2
  /\ Len(served) = 1
  /\ last.outcome = "ValueError"

\* C2: with requests completed one after another, total_usage() is the
\* element-wise sum of the actual_usage() values read right after each
\* request completed since construction or the last reset.
C2_Additivity == ~overlapped => TotalUsage = captured

\* C2: a create and a stream with different prompts have completed.
C2_Witness ==
  /\ ~overlapped
  /\ Len(served) = 2
  /\ Len(create_calls) = 1
  /\ streams = EmptyBag
  /\ captured.prompt_tokens = 4
  /\ captured.completion_tokens > 0

\* The entry the last create served, its call's messages and its result.
CreateReturned == last.op = "create" /\ last.outcome = "return"
ServedEntry == chat_completions[current_index]
ServedMessages == create_calls[Len(create_calls)].messages
ReturnedResult == last.items[1].result

\* C3: the result create returns for a pre-built entry carries the prompt
\* tokens counted from the call's messages and the entry's stored
\* completion tokens.
C3_PrebuiltUsage ==
  (CreateReturned /\ ServedEntry.kind = "result") =>
    ReturnedResult.usage =
      RequestUsage(PromptPieces(ServedMessages), ServedEntry.result.usage.completion_tokens)

\* A str with no whitespace at its ends and single spaces between its pieces.
Normal(t) ==
  \A j \in 1..Len(t) :
    t[j] \in Whitespace => t[j] = " " /\ 1 < j /\ j < Len(t) /\ t[j - 1] \notin Whitespace

\* The strs yielded by a generator that has yielded its final result.
FragmentsOf(f) == [j \in 1..(Len(f.yielded) - 1) |-> f.yielded[j].str]
FinalOf(f) == f.yielded[Len(f.yielded)]

\* C4 as stated: for every raw text the concatenated fragments are the
\* text, and the final item is a result whose content is the text.
C4_ExactReconstruction ==
  \A f \in Live : f.pc = "result" =>
    /\ Concat(FragmentsOf(f)) = f.response.str
    /\ FinalOf(f).kind = "result"
    /\ FinalOf(f).result.content = f.response.str

\* C4 amended: the concatenated fragments are the pieces of the text joined
\* by single spaces, which is the text itself exactly when the text has no
\* leading or trailing whitespace and one space between its pieces; the
\* final item is a result whose content is the text in every case.
C4_NormalisedReconstruction ==
  \A f \in Live : f.pc = "result" =>
    LET text == f.response.str
        joined == Concat(FragmentsOf(f))
    IN /\ Normal(joined)
       /\ Split(joined) = Split(text)
       /\ (joined = text) <=> Normal(text)
       /\ FinalOf(f).kind = "result"
       /\ FinalOf(f).result.content = text

\* C4: a text of two pieces that are not separated by one space has been
\* streamed up to its final result.
C4_Witness ==
  \E f \in Live :
    /\ f.pc = "result"
    /\ Len(f.yielded) = 3
    /\ ~Normal(f.response.str)
    /\ Normal(Concat(FragmentsOf(f)))

\* A str that ends in one space and holds no other whitespace, and a str
\* that holds none.
Bare(t) == t # <<>> /\ \A j \in 1..Len(t) : t[j] \notin Whitespace
Spaced(t) == Len(t) > 1 /\ t[Len(t)] = " " /\ Bare(SubSeq(t, 1, Len(t) - 1))

\* C5: a generator holds a result only as the last item it yielded; once
\* it has yielded it, a text of k pieces was streamed as k strs, each but
\* the last ending in one space and the last bare, then the result; a
\* pre-built entry as the result alone; before that it yielded at most k
\* strs and nothing else.
C5_StreamShape ==
  \A f \in Live :
    LET k == IF f.response.kind = "str" THEN PieceCount(f.response.str) ELSE 0 IN
      /\ f.pc = "prebuilt" => f.yielded = <<ResultItem(f.response.result)>>
      /\ f.pc = "result" =>
           /\ Len(f.yielded) = k + 1
           /\ FinalOf(f).kind = "result"
           /\ \A j \in 1..k :
                /\ f.yielded[j].kind = "str"
                /\ IF j < k THEN Spaced(f.yielded[j].str) ELSE Bare(f.yielded[j].str)
      /\ f.pc = "token" =>
           /\ Len(f.yielded) \in 1..k
           /\ \A j \in 1..Len(f.yielded) : f.yielded[j].kind = "str"

\* C5: a text of two pieces has been streamed up to its final result.
C5_Witness ==
  \E f \in Live :
    /\ f.pc = "result"
    /\ PieceCount(f.response.str) = 2
    /\ Len(f.yielded) = 3
    /\ f.yielded[3].kind = "result"

\* C6 as stated: the cursor is within 0..N in every reachable state.
C6_CursorInRange == 0 <= current_index /\ current_index <= N

\* C6 amended: the cursor is never negative, and it is at most N as long
\* as no operation ran while a generator was suspended between two pulls.
C6_CursorInRangeSequential ==
  /\ 0 <= current_index
  /\ ~overlapped => current_index <= N

\* C6: both entries were served one after the other, by a create and by a
\* stream pulled to its end.
C6_Witness ==
  /\ ~overlapped
  /\ N = 2
  /\ current_index = N
  /\ Len(create_calls) = 1
  /\ last = Outcome("create_stream", "stop", <<>>)

\* A new generator made its first pull in this step.
Started == BagCardinality(streams') > BagCardinality(streams)

\* C7: reset sets the cursor to 0 and both usages to {0, 0} and leaves the
\* call log, the response list, the cached flag and the model info as they
\* were; the request made right after it is served entry 0.
C7_Reset ==
  [][/\ last'.op = "reset" =>
          /\ current_index' = 0
          /\ cur_usage' = RequestUsage(0, 0)
          /\ total_usage' = RequestUsage(0, 0)
          /\ UNCHANGED <<create_calls, chat_completions, cached_bool_value, model_info>>
     /\ (last.op = "reset" /\ N > 0 /\ last'.op = "create") =>
          /\ last'.outcome = "return"
          /\ Serves(last'.items[1], chat_completions[1])
     /\ (last.op = "reset" /\ N > 0 /\ last'.op = "create_stream" /\ Started) =>
          /\ last'.outcome = "yield"
          /\ \E f \in BagToSet(streams') :
               /\ CopiesIn(f, streams') > CopiesIn(f, streams)
               /\ f.response = chat_completions[1]]_vars

\* C7: reset ran on a client that had served a request, with the cached
\* flag changed and a model info given at construction.
C7_Witness ==
  /\ last.op = "reset"
  /\ create_calls # <<>>
  /\ ~cached_bool_value
  /\ model_info = GivenModelInfo

\* C8: the client rebuilt from the exported configuration has the same
\* response list and model info, the cursor at 0, both usages {0, 0} and
\* an empty call log.
C8_RoundTrip ==
  LET new == FromConfig(ToConfig) IN
    /\ new.chat_completions = chat_completions
    /\ new.model_info = model_info
    /\ new.current_index = 0
    /\ new.cur_usage = RequestUsage(0, 0)
    /\ new.total_usage = RequestUsage(0, 0)
    /\ new.create_calls = <<>>

\* C8: the client exported has served a request, changed its cached flag
\* and was built with a model info.
C8_Witness ==
  /\ current_index > 0
  /\ total_usage # RequestUsage(0, 0)
  /\ create_calls # <<>>
  /\ ~cached_bool_value
  /\ model_info = GivenModelInfo

\* The tokens used since the last reset.
Used == total_usage.prompt_tokens + total_usage.completion_tokens

\* remaining_tokens returns r for every messages argument.
Remains(r) == \A req \in Requests : RemainingTokens(req.messages) = r

\* C9: remaining_tokens is 10000 minus the tokens used, or 0 when more
\* than 10000 were used, whatever its messages; it is 10000 after
\* construction and after reset, and no other operation makes it grow.
C9_Remaining ==
  /\ Remains(10000)
  /\ [][/\ IF Used' <= 10000 THEN Remains(10000 - Used)' ELSE Remains(0)'
        /\ last'.op = "reset" => Remains(10000)'
        /\ last'.op # "reset" =>
             \A req \in Requests :
               RemainingTokens(req.messages)' <= RemainingTokens(req.messages)]_vars

\* C9: more than 10000 tokens were used.
C9_Witness == Used > 10000 /\ Remains(0)

\* C10: the result create returns for a raw text has finish reason "stop",
\* the text as content, the pieces of the call's messages as prompt tokens
\* and the pieces of the text as completion tokens, and actual_usage() is
\* that usage.
C10_TextResult ==
  (CreateReturned /\ ServedEntry.kind = "str") =>
    /\ ReturnedResult.finish_reason = "stop"
    /\ ReturnedResult.content = ServedEntry.str
    /\ ReturnedResult.usage =
         RequestUsage(PromptPieces(ServedMessages), PieceCount(ServedEntry.str))
    /\ ActualUsage = ReturnedResult.usage

\* C10: create served a two-piece text to a call whose prompt holds one
\* piece and a content that is not a str.
C10_Witness ==
  /\ CreateReturned
  /\ ServedEntry = StrEntry(TwoWords)
  /\ ReturnedResult.usage = RequestUsage(1, 2)

\* The generators that are new in this step, or suspended at a new place,
\* and the generators that ended or moved on in this step.
Arrived == {f \in BagToSet(streams') : CopiesIn(f, streams') > CopiesIn(f, streams)}
Left == {f \in Live : CopiesIn(f, streams) > CopiesIn(f, streams')}

\* The steps of the requests, by what their caller receives.
CreateReturns == last'.op = "create" /\ last'.outcome = "return"
CreateFails == last'.op = "create" /\ last'.outcome = "ValueError"
StreamYields == last'.op = "create_stream" /\ last'.outcome = "yield"
StreamStops == last'.op = "create_stream" /\ last'.outcome = "stop"
StreamFails == last'.op = "create_stream" /\ last'.outcome = "ValueError"
StreamCloses == last'.op = "aclose"

\* C11: the first pull and every yield of a stream leave the cursor where
\* it is, the pull after the final result adds exactly 1 to it, and closing
\* a suspended stream leaves it alone; so as long as nothing else ran, the
\* entry a suspended or closed stream holds is still the one at the
\* cursor, and the entry at the cursor is what the next request is served.
C11_StreamAdvance ==
  [][/\ StreamYields => current_index' = current_index
     /\ StreamStops => current_index' = current_index + 1
     /\ StreamCloses => current_index' = current_index
     /\ ~overlapped' =>
          \A f \in BagToSet(streams') \cup (IF StreamCloses THEN Left ELSE {}) :
            /\ current_index' < N
            /\ f.response = chat_completions[current_index' + 1]
     /\ CreateReturns => Serves(last'.items[1], chat_completions[current_index + 1])
     /\ (StreamYields /\ Started) =>
          \A f \in Arrived : f.response = chat_completions[current_index + 1]]_vars

\* C11: a two-piece text was streamed up to its final result, with nothing
\* else run meanwhile, and the cursor is still 0.
C11_Witness ==
  /\ ~overlapped
  /\ current_index = 0
  /\ last = Outcome("create_stream", "yield", <<>>)
  /\ \E f \in Live : f.pc = "result" /\ Len(f.yielded) = 3

\* C12: no step of a stream (first pull, yield, last pull, failure, close)
\* changes the call log; a create that returns makes it one entry longer,
\* and a create that fails leaves it as it is.
C12_StreamLeavesLog ==
  [][/\ (last'.op = "create_stream" \/ StreamCloses) => create_calls' = create_calls
     /\ CreateReturns =>
          /\ Len(create_calls') = Len(create_calls) + 1
          /\ SubSeq(create_calls', 1, Len(create_calls)) = create_calls
     /\ CreateFails => create_calls' = create_calls]_vars

\* C12: one request was served by create and one by a stream pulled to its
\* end; the log holds the one create.
C12_Witness ==
  /\ ~overlapped
  /\ Len(served) = 2
  /\ Len(create_calls) = 1
  /\ last = Outcome("create_stream", "stop", <<>>)

\* The log entry of a call: its arguments but tool_choice.
LogEntry(req) ==
  [messages |-> req.messages, tools |-> req.tools, json_output |-> req.json_output,
   extra_create_args |-> req.extra_create_args,
   cancellation_token |-> req.cancellation_token]

\* C13: in every step the call log keeps its entries as a prefix; it grows
\* exactly in the steps where create returns, by one entry at the end,
\* which holds the messages, tools, json_output, extra_create_args and
\* cancellation_token of that call (the call whose messages were counted
\* into the current usage).
C13_AppendOnly ==
  [][/\ Len(create_calls') >= Len(create_calls)
     /\ SubSeq(create_calls', 1, Len(create_calls)) = create_calls
     /\ Len(create_calls') > Len(create_calls) <=> CreateReturns
     /\ CreateReturns =>
          \E req \in Requests :
            /\ create_calls' = Append(create_calls, LogEntry(req))
            /\ cur_usage'.prompt_tokens = PromptPieces(req.messages)]_vars

\* C13: two creates with different arguments are in the log, in call
\* order, after a reset between them and a request that failed.
C13_Witness ==
  /\ N = 1
  /\ Len(create_calls) = 2
  /\ create_calls[1].json_output = None
  /\ create_calls[2].json_output = Some(TRUE)
  /\ last.outcome = "ValueError"

\* A first pull of a stream was made in this step.
FirstPull == last'.op = "create_stream" /\ (Started \/ StreamFails)

\* C14: a create or a first pull that fails with the exhausted error
\* leaves every attribute of the client as it was and yields nothing; a
\* request fails exactly when the cursor is at or past N; and once it is
\* there it stays there in every step but a reset, so that every further
\* request fails too.
C14_ExhaustedChangesNothing ==
  [][/\ (CreateFails \/ StreamFails) => UNCHANGED <<client, streams>>
     /\ (last'.op = "create" \/ FirstPull) =>
          (last'.outcome = "ValueError" <=> current_index >= N)
     /\ (current_index >= N /\ last'.op # "reset") => current_index' >= N]_vars

\* C14: after a create and a stream served both entries, the first pull of
\* a further stream failed.
C14_Witness ==
  /\ N = 2
  /\ current_index = 2
  /\ Len(create_calls) = 1
  /\ cur_usage # RequestUsage(0, 0)
  /\ last = Outcome("create_stream", "ValueError", <<>>)

\* The result r is the one made from the entry e.
MadeFrom(r, e) ==
  IF e.kind = "str"
    THEN r.finish_reason = "stop" /\ r.content = e.str
    ELSE r = e.result

OwnUsage(f) == RequestUsage(f.prompt_token_count, PieceCount(f.response.str))

\* C16 as stated: the final result of a stream of a raw text carries the
\* usage of its own request, and that usage is what its last pull adds to
\* the total, whatever else runs while the stream is suspended.
C16_OwnUsage ==
  [][/\ \A f \in BagToSet(streams') :
          f.pc = "result" => FinalOf(f).result.usage = OwnUsage(f)
     /\ StreamStops =>
          \A f \in Left : f.pc = "result" => total_usage' = Sum(total_usage, OwnUsage(f))]_vars

\* C16 amended: the final result carries the current usage of the client
\* at the moment it is yielded, and the last pull adds the current usage of
\* the client at that later moment; both are the usage of the stream's own
\* request as long as no other request and no reset ran while a generator
\* was suspended.
C16_OwnUsageUndisturbed ==
  [][/\ \A f \in Arrived : f.pc = "result" => FinalOf(f).result.usage = cur_usage'
     /\ StreamStops => total_usage' = Sum(total_usage, cur_usage)
     /\ ~overlapped' =>
          /\ \A f \in BagToSet(streams') :
               f.pc = "result" => FinalOf(f).result.usage = OwnUsage(f)
          /\ StreamStops =>
               \A f \in Left :
                 f.pc = "result" => total_usage' = Sum(total_usage, OwnUsage(f))]_vars

\* C16: after a create and a reset, a stream of a two-piece text with a
\* one-piece prompt has yielded its final result.
C16_Witness ==
  /\ ~overlapped
  /\ create_calls # <<>>
  /\ total_usage = RequestUsage(0, 0)
  /\ \E f \in Live :
       /\ f.pc = "result"
       /\ f.prompt_token_count = 1
       /\ FinalOf(f).result.usage = RequestUsage(1, 2)

\* C17: no step changes the response list, the model info or the capacity,
\* and no step of a create or a create_stream (served or failed, first
\* pull, yield, last pull or close) changes the cached flag; the capacity
\* is the 10000 set at construction.
C17_RequestsOnlyRead ==
  /\ total_available_tokens = 10000
  /\ [][/\ chat_completions' = chat_completions
        /\ model_info' = model_info
        /\ total_available_tokens' = total_available_tokens
        /\ (last'.op \in {"create", "create_stream", "aclose"}) =>
             cached_bool_value' = cached_bool_value]_vars

\* C17: a text was served by a stream and a pre-built result by create (or
\* the other way round), and a further create failed.
C17_Witness ==
  /\ ~overlapped
  /\ N = 2
  /\ Len(served) = 2
  /\ Len(create_calls) = 1
  /\ last = Outcome("create", "ValueError", <<>>)

\* C18: the flag is TRUE after construction, set_cached_bool_value makes
\* it the value passed and changes nothing else, and no other operation
\* changes it; a result synthesized from a raw text, by create or as the
\* final result of a stream, has the flag's value at that moment as its
\* cached indicator, and a result served from a pre-built entry has the
\* entry's.
C18_CachedIndicator ==
  /\ cached_bool_value = TRUE
  /\ [][/\ last'.op = "set_cached_bool_value" =>
             /\ cached_bool_value' = last'.items[1]
             /\ UNCHANGED <<chat_completions, model_info, total_available_tokens, cur_usage,
                            total_usage, current_index, create_calls, streams>>
        /\ cached_bool_value' # cached_bool_value => last'.op = "set_cached_bool_value"
        /\ CreateReturns =>
             LET e == chat_completions[current_index + 1]
                 r == last'.items[1].result
             IN r.cached = IF e.kind = "str" THEN cached_bool_value ELSE e.result.cached
        /\ \A f \in Arrived :
             /\ f.pc = "result" => FinalOf(f).result.cached = cached_bool_value
             /\ f.pc = "prebuilt" => FinalOf(f).result.cached = f.response.result.cached]_vars

\* C18: after the flag was set to FALSE, a stream of a raw text yielded
\* its final result with cached FALSE.
C18_Witness ==
  /\ ~cached_bool_value
  /\ last = Outcome("create_stream", "yield", <<>>)
  /\ \E f \in Live : f.pc = "result" /\ ~FinalOf(f).result.cached

\* A prompt made of a text, a content that is not a str, and a
\* three-piece text.
PromptWith(text) ==
  <<Message(StrContent(text)), Message(NonStrContent), Message(StrContent(ThreeWords))>>

\* C19: count_tokens is the sum of the pieces of the str contents, a
\* content that is not a str counting 0: for the two argument lists, for
\* the empty sequence, and for the prompts made of each raw text of the
\* client; and the prompt tokens of the current usage after a create are
\* count_tokens of that call's messages.
C19_CountTokens ==
  /\ \A req \in Requests : CountTokens(req.messages) = PromptPieces(req.messages)
  /\ CountTokens(<<>>) = 0
  /\ CountTokens(<<Message(NonStrContent)>>) = 0
  /\ \A i \in 1..N :
       chat_completions[i].kind = "str" =>
         CountTokens(PromptWith(chat_completions[i].str))
           = PieceCount(chat_completions[i].str) + 0 + 3
  /\ CreateReturned => ActualUsage.prompt_tokens = CountTokens(ServedMessages)

\* C19: create served a pre-built result to a call whose messages hold one
\* piece and a content that is not a str.
C19_Witness ==
  /\ CreateReturned
  /\ ServedEntry.kind = "result"
  /\ Len(ServedMessages) = 2
  /\ ~ServedMessages[2].content.isstr
  /\ ActualUsage.prompt_tokens = 1

====
